---- MODULE Spec2Model ----
(***************************************************************************)
(* A model of the admin-check hook (useIsAdmin) and of the user items list *)
(* (UserItemsList, filterComponentsBySearch) of the web application.       *)
(*                                                                         *)
(* The data-fetching library the code calls (useQuery) is modelled by the  *)
(* part of its behaviour the code reads: a cache of query results keyed by *)
(* queryKey, a fetch that starts when an enabled observer mounts on a key  *)
(* without fresh data, and a cached value that is returned while a refetch *)
(* is in flight.                                                           *)
(***************************************************************************)
EXTENDS Integers, Sequences, FiniteSets, TLC

VARIABLES
    user,          \* useUser().user?.id : a user identifier or Undefined
    adminQueries,  \* query cache entries ["user", id, "isAdmin"], by id
    lastLookup,    \* history: outcome of the lookup for the current identifier
    resolvedTrue,  \* history: identifiers whose lookup resolved is_admin = true
    mounted,       \* whether UserItemsList is mounted
    tab,           \* prop tab
    userId,        \* prop userId
    searchQuery,   \* the value of userPageSearchAtom
    hotkeyQuery,   \* searchQuery as captured by the memoised mod+enter callback
    queries,       \* query cache entries of the three per-tab hooks, by queryKey
    pushed,        \* the path the latest event gave router.push, NoText if none
    fComponents,   \* filterComponentsBySearch: argument components
    fQuery,        \* filterComponentsBySearch: argument searchQuery
    fResult,       \* filterComponentsBySearch: what the call returned
    fCalled        \* whether the call has returned

adminVars == <<user, adminQueries, lastLookup, resolvedTrue>>

listVars == <<mounted, tab, userId, searchQuery, hotkeyQuery, queries, pushed>>

filterVars == <<fComponents, fQuery, fResult, fCalled>>

vars == <<adminVars, listVars, filterVars>>

\* JavaScript's undefined, for identifiers and cached values.
Undefined == "undefined"

\* A string is a sequence of one-character strings; NoText is an undefined
\* string. A collection that may be undefined is a record: NoList is the
\* undefined one, List(items) the array items.
NoText == <<Undefined>>

NoList == [isUndefined |-> TRUE, items |-> <<>>]

List(items) == [isUndefined |-> FALSE, items |-> items]

EmptyText == <<>>

Tabs == {"components", "demos", "bookmarks"}

\* The units of the model are independent; each specification runs one of
\* them and leaves the others in these states.
AdminIdle ==
    /\ user = Undefined
    /\ adminQueries = <<>>
    /\ lastLookup = "unresolved"
    /\ resolvedTrue = {}

ListIdle ==
    /\ mounted = FALSE
    /\ tab = "components"
    /\ userId = ""
    /\ searchQuery = EmptyText
    /\ hotkeyQuery = EmptyText
    /\ queries = <<>>
    /\ pushed = NoText

FilterIdle ==
    /\ fComponents = NoList
    /\ fQuery = EmptyText
    /\ fResult = NoList
    /\ fCalled = FALSE

------------------------------------------------------------------------------
(* Strings *)

LowerOf == [A |-> "a", B |-> "b"]

\* String.prototype.toLowerCase, character by character.
ToLowerCase(s) ==
    [i \in 1..Len(s) |-> IF s[i] \in DOMAIN LowerOf THEN LowerOf[s[i]] ELSE s[i]]

\* String.prototype.includes: needle occurs in hay at some position.
Includes(hay, needle) ==
    \E i \in 0..(Len(hay) - Len(needle)) :
        \A k \in 1..Len(needle) : hay[i + k] = needle[k]

\* value?.toLowerCase().includes(query) as a condition: undefined is falsy.
FieldIncludes(value, query) ==
    value # NoText /\ Includes(ToLowerCase(value), query)

------------------------------------------------------------------------------
(* filterComponentsBySearch *)

\* The filter callback of filterComponentsBySearch.
MatchesSkipPreviewUrlMutant(component, query) ==
    \/ FieldIncludes(component.name, query)
    \/ FieldIncludes(component.component.name, query)
    \/ FieldIncludes(component.user.name, query)

Matches(component, query) ==
    \/ FieldIncludes(component.name, query)
    \/ FieldIncludes(component.component.name, query)
    \/ FieldIncludes(component.user.name, query)
    \/ FieldIncludes(component.preview_url, query)

RECURSIVE Filter(_, _)
\* Array.prototype.filter with the callback above.
Filter(components, query) ==
    IF components = <<>> THEN <<>>
    ELSE LET rest == Filter(Tail(components), query)
         IN  IF Matches(Head(components), query)
             THEN <<Head(components)>> \o rest
             ELSE rest

filterComponentsBySearch(components, search) ==
    IF components.isUndefined \/ search = EmptyText THEN components
    ELSE List(Filter(components.items, ToLowerCase(search)))

\* The fields of a DemoWithComponent the code reads. An absent user or
\* component is the record of undefined fields: the code reads them through
\* optional chaining only.
Person(id, name) == [id |-> id, name |-> name]

NoPerson == Person(Undefined, NoText)

Demo(id, name, preview_url, usr, componentName, componentUser) ==
    [id |-> id, name |-> name, preview_url |-> preview_url,
     user |-> usr, user_id |-> usr.id,
     component |-> [name |-> componentName, user |-> componentUser]]

\* Bounds of the inputs of filterComponentsBySearch.
MaxItems == 2

MaxQueryLen == 2

Chars == {"a", "A", "b", "B"}

SeqsUpTo(S, n) == UNION {[1..k -> S] : k \in 0..n}

\* Items whose four searched fields are each undefined or a two-letter string.
FilterItems ==
    {Demo("1", name, url, Person("u1", uname), cname, NoPerson) :
        name \in {NoText, <<"A", "b">>}, url \in {NoText, <<"b", "B">>},
        uname \in {NoText, <<"a", "a">>}, cname \in {NoText, <<"B", "a">>}}

InitFilter ==
    /\ fComponents \in {NoList} \cup {List(l) : l \in SeqsUpTo(FilterItems, MaxItems)}
    /\ fQuery \in SeqsUpTo(Chars, MaxQueryLen)
    /\ fResult = NoList
    /\ fCalled = FALSE
    /\ AdminIdle
    /\ ListIdle

CallFilter ==
    /\ ~fCalled
    /\ fResult' = filterComponentsBySearch(fComponents, fQuery)
    /\ fCalled' = TRUE
    /\ UNCHANGED <<fComponents, fQuery, adminVars, listVars>>

NextFilter == CallFilter

SpecFilter == InitFilter /\ [][NextFilter]_vars

------------------------------------------------------------------------------
(* UserItemsList: rows, hooks and the query cache *)

\* A row of the remote procedures, with the fields transformDemoData reads.
Row(id, name, preview_url, user_data, componentName, component_user_data) ==
    [id |-> id, name |-> name, preview_url |-> preview_url,
     user_data |-> user_data,
     component_data |-> [name |-> componentName],
     component_user_data |-> component_user_data]

transformDemoData(data) ==
    [id |-> ToString(data.id), name |-> data.name,
     preview_url |-> data.preview_url,
     user |-> data.user_data, user_id |-> data.user_data.id,
     component |-> [name |-> data.component_data.name,
                    user |-> data.component_user_data]]

\* data.map(transformDemoData)
MapTransform(rows) == [i \in 1..Len(rows) |-> transformDemoData(rows[i])]

ProfileIds == {"u1", "u2"}

U1 == Person("u1", <<"B", "o">>)

U2 == Person("u2", <<"z">>)

\* The row lists a remote procedure may return for p_user_id. u1's profile
\* demos cover every pairing of a demo's author and its component's owner;
\* u2's only demo is of u1's component; u1 has bookmarks or none.
RpcRows(rpc, p_user_id) ==
    IF rpc = "get_user_profile_demos" THEN
        IF p_user_id = "u1" THEN
            {<< Row(1, <<"A", " ", "b">>, NoText, U1, <<"c">>, U1),
                Row(2, <<"c">>, <<"/", "a", " ">>, U1, <<"c">>, U2),
                Row(3, <<"c">>, NoText, U1, NoText, NoPerson),
                Row(4, <<"a", " ">>, NoText, U2, <<"c">>, U1),
                Row(5, <<"c">>, NoText, U2, <<"A", " ">>, U2),
                Row(6, <<"c">>, NoText, NoPerson, <<"c">>, U1),
                Row(7, <<"a", " ">>, NoText, NoPerson, <<"c">>, NoPerson) >>}
        ELSE IF p_user_id = "u2" THEN
            {<< Row(8, <<"c">>, NoText, U2, <<"c">>, U1) >>}
        ELSE {<<>>}
    ELSE
        IF p_user_id = "u1" THEN
            {<<>>,
             << Row(9, <<"c">>, NoText, U2, <<"c">>, U2),
                Row(10, <<"A", " ">>, NoText, U1, <<"c">>, U2) >>}
        ELSE {<<>>}

Kinds == {"user-published-demos", "user-liked-components", "user-demos"}

\* The remote procedure each hook's queryFn calls.
RpcOf(kind) ==
    IF kind = "user-liked-components" THEN "get_user_liked_components"
    ELSE "get_user_profile_demos"

\* The tab whose hook is given the user identifier.
TabOf(kind) ==
    IF kind = "user-published-demos" THEN "components"
    ELSE IF kind = "user-liked-components" THEN "bookmarks"
    ELSE "demos"

KindOf(t) == CHOOSE kind \in Kinds : TabOf(kind) = t

\* The userId argument UserItemsList gives each hook.
HookArg(kind, t, u) == IF t = TabOf(kind) THEN u ELSE ""

\* queryKey: [kind, userId]
QueryKeyWithoutUserMutant(kind, arg) == <<kind, "">>

QueryKey(kind, arg) == <<kind, arg>>

\* useQuery is called without an `enabled` option: the default is true.
QueryEnabled(kind, arg) == TRUE

QueryKeys == Kinds \X (ProfileIds \cup {""})

\* The keys the three hooks observe when rendered with tab t and userId u.
ObservedKeys(t, u) == {QueryKey(kind, HookArg(kind, t, u)) : kind \in Kinds}

\* The hook call that observes key, given the props.
HookOf(key, t, u) ==
    CHOOSE kind \in Kinds : QueryKey(kind, HookArg(kind, t, u)) = key

\* A cache entry: hook and arg are the hook whose queryFn produced (or is
\* producing) the entry and the p_user_id it sent.
NoQuery == [status |-> "none", data |-> <<>>, hook |-> "", arg |-> ""]

\* A hook that starts observing a key fetches when the query is enabled and
\* holds no data (never fetched, or failed).
\* Cached data is kept and shown; its background refresh changes neither
\* `data` nor `isLoading` while the backend's rows stay the same.
StartFetches(q, keys, t, u) ==
    [key \in DOMAIN q |->
        IF /\ key \in keys
           /\ QueryEnabled(key[1], HookArg(HookOf(key, t, u), t, u))
           /\ q[key].status \in {"none", "error"}
        THEN [status |-> "pending", data |-> <<>>,
              hook |-> HookOf(key, t, u),
              arg |-> HookArg(HookOf(key, t, u), t, u)]
        ELSE q[key]]

\* The query result each hook returns on a render with the current props.
HookResult(kind) == queries[QueryKey(kind, HookArg(kind, tab, userId))]

publishedQuery == HookResult("user-published-demos")

likedQuery == HookResult("user-liked-components")

demosQuery == HookResult("user-demos")

\* `query.data || []`
DataOrEmpty(query) == IF query.status = "success" THEN query.data ELSE <<>>

QueryIsLoading(query) == query.status = "pending"

------------------------------------------------------------------------------
(* UserItemsList: what a render computes *)

ActiveQuery ==
    CASE tab = "components" -> publishedQuery
      [] tab = "demos" -> demosQuery
      [] tab = "bookmarks" -> likedQuery

IsOwnComponent(demo) == demo.component.user.id = userId

IsDemoOfOthers(demo) == demo.user.id = userId /\ demo.component.user.id # userId

IsOwnDemo(demo) == demo.user.id = userId

\* The ownership filter of the components memo.
OwnershipDemosByAuthorOnlyMutant(filtered) ==
    IF tab = "components" THEN SelectSeq(filtered, IsOwnComponent)
    ELSE IF tab = "demos" THEN SelectSeq(filtered, IsOwnDemo)
    ELSE filtered

OwnershipFilter(filtered) ==
    IF tab = "components" THEN SelectSeq(filtered, IsOwnComponent)
    ELSE IF tab = "demos" THEN SelectSeq(filtered, IsDemoOfOthers)
    ELSE filtered

\* `filterComponentsBySearch(allDemos, searchQuery) || []`
SearchFiltered(allDemos) ==
    LET r == filterComponentsBySearch(List(allDemos), searchQuery)
    IN  IF r.isUndefined THEN <<>> ELSE r.items

components == OwnershipFilter(SearchFiltered(DataOrEmpty(ActiveQuery)))

isLoading == QueryIsLoading(ActiveQuery)

ShowSkeletonWhenLoadingOnlyMutant == isLoading

showSkeleton == isLoading \/ (Len(components) = 0 /\ searchQuery = EmptyText)

showEmptyState == ~isLoading /\ Len(components) = 0 /\ searchQuery # EmptyText

NoBookmarksBranchMutant == FALSE

ShowEmptyLiked ==
    tab = "bookmarks" /\ ~isLoading /\ Len(components) = 0 /\ searchQuery = EmptyText

\* What the component returns.
Rendered ==
    IF ~mounted THEN "unmounted"
    ELSE IF ShowEmptyLiked THEN "EmptyLikedState"
    ELSE IF showSkeleton THEN "skeleton"
    ELSE IF showEmptyState THEN "emptySearch"
    ELSE "grid"

\* encodeURIComponent: unreserved characters stay, the others are
\* percent-encoded.
PercentCode == [c \in {" ", "/"} |-> IF c = " " THEN <<"%", "2", "0">>
                                    ELSE <<"%", "2", "F">>]

RECURSIVE encodeURIComponent(_)
encodeURIComponent(s) ==
    IF s = <<>> THEN <<>>
    ELSE (IF Head(s) \in DOMAIN PercentCode THEN PercentCode[Head(s)] ELSE <<Head(s)>>)
         \o encodeURIComponent(Tail(s))

\* handleGlobalSearch with search as the searchQuery of its closure: the path
\* it gives router.push, NoText when it returns early.
handleGlobalSearch(search) ==
    IF search = EmptyText THEN NoText
    ELSE <<"/", "q", "/">> \o encodeURIComponent(search)

\* useHotkeys memoises the callback on [searchQuery]: a render with another
\* searchQuery replaces the closure the shortcut runs.
HotkeyClosureNeverRenewedMutant(captured, search) == captured

HotkeyClosure(captured, search) == search

------------------------------------------------------------------------------
(* UserItemsList: events *)

Searches == {EmptyText, <<"a", " ">>, <<"B", "/">>}

\* The tabs and users of the run in which two profiles are visited.
SwitchTabs == {"components", "demos"}

InitList ==
    /\ mounted = FALSE
    /\ tab = "components"
    /\ userId = "u1"
    /\ searchQuery = EmptyText
    /\ hotkeyQuery = EmptyText
    /\ queries = [key \in QueryKeys |-> NoQuery]
    /\ pushed = NoText
    /\ AdminIdle
    /\ FilterIdle

\* The profile page mounts the list.
Mount(t, u) ==
    /\ ~mounted
    /\ mounted' = TRUE
    /\ tab' = t
    /\ userId' = u
    /\ hotkeyQuery' = searchQuery
    /\ queries' = StartFetches(queries, ObservedKeys(t, u), t, u)
    /\ pushed' = NoText
    /\ UNCHANGED <<searchQuery, adminVars, filterVars>>

\* The parent renders the list with other props.
SetProps(t, u) ==
    /\ mounted
    /\ <<t, u>> # <<tab, userId>>
    /\ tab' = t
    /\ userId' = u
    /\ queries' = StartFetches(queries,
                     ObservedKeys(t, u) \ ObservedKeys(tab, userId), t, u)
    /\ pushed' = NoText
    /\ UNCHANGED <<mounted, searchQuery, hotkeyQuery, adminVars, filterVars>>

\* The page header writes the search atom; the list renders again.
SetSearchQuery(q) ==
    /\ mounted
    /\ q # searchQuery
    /\ searchQuery' = q
    /\ hotkeyQuery' = HotkeyClosure(hotkeyQuery, q)
    /\ pushed' = NoText
    /\ UNCHANGED <<mounted, tab, userId, queries, adminVars, filterVars>>

\* A remote procedure call returns rows; the query caches them under its key.
FetchSuccess(key) ==
    /\ queries[key].status = "pending"
    /\ \E rows \in RpcRows(RpcOf(queries[key].hook), queries[key].arg) :
          queries' = [queries EXCEPT ![key].status = "success",
                                     ![key].data = MapTransform(rows)]
    /\ pushed' = NoText
    /\ UNCHANGED <<mounted, tab, userId, searchQuery, hotkeyQuery,
                   adminVars, filterVars>>

\* A remote procedure call fails (`if (error) throw error`), retries included.
FetchError(key) ==
    /\ queries[key].status = "pending"
    /\ queries' = [queries EXCEPT ![key].status = "error"]
    /\ pushed' = NoText
    /\ UNCHANGED <<mounted, tab, userId, searchQuery, hotkeyQuery,
                   adminVars, filterVars>>

\* The library fetches an observed, failed query again (window focus).
RefetchFailed(key) ==
    /\ mounted
    /\ key \in ObservedKeys(tab, userId)
    /\ queries[key].status = "error"
    /\ queries' = StartFetches(queries, {key}, tab, userId)
    /\ pushed' = NoText
    /\ UNCHANGED <<mounted, tab, userId, searchQuery, hotkeyQuery,
                   adminVars, filterVars>>

\* The Search Everywhere button of the empty-search panel is clicked.
ClickSearchEverywhere ==
    /\ Rendered = "emptySearch"
    /\ pushed' = handleGlobalSearch(searchQuery)
    /\ UNCHANGED <<mounted, tab, userId, searchQuery, hotkeyQuery, queries,
                   adminVars, filterVars>>

\* mod+enter is pressed while the list is mounted.
HotkeyModEnter ==
    /\ mounted
    /\ pushed' = handleGlobalSearch(hotkeyQuery)
    /\ UNCHANGED <<mounted, tab, userId, searchQuery, hotkeyQuery, queries,
                   adminVars, filterVars>>

\* The list unmounts: the effect's cleanup clears the search atom, and the
\* shortcut's closure goes with the component.
Unmount ==
    /\ mounted
    /\ mounted' = FALSE
    /\ searchQuery' = EmptyText
    /\ hotkeyQuery' = EmptyText
    /\ pushed' = NoText
    /\ UNCHANGED <<tab, userId, queries, adminVars, filterVars>>

NextList ==
    \/ \E t \in Tabs : Mount(t, "u1")
    \/ \E t \in Tabs : SetProps(t, "u1")
    \/ \E q \in Searches : SetSearchQuery(q)
    \/ \E key \in QueryKeys : FetchSuccess(key)
    \/ \E key \in QueryKeys : FetchError(key)
    \/ \E key \in QueryKeys : RefetchFailed(key)
    \/ ClickSearchEverywhere
    \/ HotkeyModEnter
    \/ Unmount

\* One profile, every tab, search and navigation.
SpecList == InitList /\ [][NextList]_vars

NextSwitch ==
    \/ \E t \in SwitchTabs, u \in ProfileIds : Mount(t, u)
    \/ \E t \in SwitchTabs, u \in ProfileIds : SetProps(t, u)
    \/ \E key \in QueryKeys : FetchSuccess(key)
    \/ \E key \in QueryKeys : FetchError(key)
    \/ \E key \in QueryKeys : RefetchFailed(key)
    \/ Unmount

\* Two profiles and two tabs, without search.
SpecSwitch == InitList /\ [][NextSwitch]_vars

------------------------------------------------------------------------------
(* useIsAdmin *)

\* The rows of the remote `users` table: is_admin of the row, "null" for a row
\* whose field is absent, "norow" for an identifier without a row.
UsersTable ==
    [ua |-> "true", ub |-> "false", uc |-> "norow", ud |-> "null"]

SignedInIds == DOMAIN UsersTable

AdminKeys == SignedInIds \cup {Undefined}

\* What `client.from("users").select("is_admin").eq("id", id).single()` gives
\* as `data`: the row, or null when the request failed or no single row matched.
LookupOutcomes(id) == {UsersTable[id], "error"}

\* `data` is a record here: isNull says that it is null, is_admin is the row's
\* field ("null" when the row carries none).
SingleRowData(outcome) ==
    IF outcome \in {"error", "norow"}
    THEN [isNull |-> TRUE, is_admin |-> "null"]
    ELSE [isNull |-> FALSE, is_admin |-> outcome]

\* queryFn's result: data?.is_admin ?? false
IsAdminDroppedMutant(data) == "false"

NullishTrueMutant(data) ==
    IF data.isNull \/ data.is_admin = "null" THEN "true" ELSE data.is_admin

QueryFnResult(data) ==
    IF data.isNull \/ data.is_admin = "null" THEN "false" ELSE data.is_admin

\* enabled: !!user?.id
AdminEnabled(id) == id # Undefined /\ id # ""

\* `data: isCurrentUserAdmin = false`: the default applies to undefined only.
DefaultTrueMutant(data) == IF data = Undefined THEN TRUE ELSE data = "true"

DefaultedData(data) == IF data = Undefined THEN FALSE ELSE data = "true"

\* The value the hook returns on a render in the current state.
useIsAdmin == DefaultedData(adminQueries[user].data)

\* An observer that mounts on (or switches to) key id fetches when the query
\* is enabled and no fetch for the key is in flight (staleTime is the
\* library's default 0, so cached data is stale at once). queryFn issues the
\* lookup only for a signed-in user (`if (!user?.id) return false`).
ObserveAdmin(q, id) ==
    IF AdminEnabled(id) /\ ~q[id].fetching
    THEN IF id = Undefined \/ id = ""
         THEN [q EXCEPT ![id].data = "false"]
         ELSE [q EXCEPT ![id].fetching = TRUE]
    ELSE q

InitAdmin ==
    /\ user = Undefined
    /\ adminQueries = [k \in AdminKeys |-> [data |-> Undefined, fetching |-> FALSE]]
    /\ lastLookup = "unresolved"
    /\ resolvedTrue = {}
    /\ ListIdle
    /\ FilterIdle

\* The authentication provider reports a (different) signed-in user.
SignIn(id) ==
    /\ id \in SignedInIds
    /\ user # id
    /\ user' = id
    /\ adminQueries' = ObserveAdmin(adminQueries, id)
    /\ lastLookup' = "unresolved"
    /\ UNCHANGED resolvedTrue
    /\ UNCHANGED <<listVars, filterVars>>

SignOut ==
    /\ user # Undefined
    /\ user' = Undefined
    /\ adminQueries' = ObserveAdmin(adminQueries, Undefined)
    /\ lastLookup' = "unresolved"
    /\ UNCHANGED resolvedTrue
    /\ UNCHANGED <<listVars, filterVars>>

\* The library refetches the observed query (window focus, reconnect, remount).
RefetchAdmin ==
    /\ AdminEnabled(user)
    /\ ~adminQueries[user].fetching
    /\ adminQueries' = ObserveAdmin(adminQueries, user)
    /\ UNCHANGED <<user, lastLookup, resolvedTrue>>
    /\ UNCHANGED <<listVars, filterVars>>

\* The lookup keyed by id completes; queryFn's result is cached under its key.
LookupComplete(id, outcome) ==
    /\ id \in SignedInIds
    /\ adminQueries[id].fetching
    /\ outcome \in LookupOutcomes(id)
    /\ adminQueries' = [adminQueries EXCEPT
            ![id] = [data |-> QueryFnResult(SingleRowData(outcome)),
                     fetching |-> FALSE]]
    /\ lastLookup' = IF id = user THEN outcome ELSE lastLookup
    /\ resolvedTrue' = IF outcome = "true" THEN resolvedTrue \cup {id}
                       ELSE resolvedTrue
    /\ UNCHANGED user
    /\ UNCHANGED <<listVars, filterVars>>

\* The library drops the cached result of a query nobody observes (gcTime).
GcAdmin(id) ==
    /\ id \in SignedInIds
    /\ id # user
    /\ ~adminQueries[id].fetching
    /\ adminQueries[id].data # Undefined
    /\ adminQueries' = [adminQueries EXCEPT ![id].data = Undefined]
    /\ UNCHANGED <<user, lastLookup, resolvedTrue>>
    /\ UNCHANGED <<listVars, filterVars>>

LookupCompletes ==
    \E id \in SignedInIds : \E o \in LookupOutcomes(id) : LookupComplete(id, o)

NextAdmin ==
    \/ \E id \in SignedInIds : SignIn(id)
    \/ SignOut
    \/ RefetchAdmin
    \/ LookupCompletes
    \/ \E id \in SignedInIds : GcAdmin(id)

SpecAdmin == InitAdmin /\ [][NextAdmin]_vars

\* The claim's assumption that a lookup in flight eventually completes.
SpecAdminLive == SpecAdmin /\ WF_vars(LookupCompletes)

------------------------------------------------------------------------------
(* Properties of useIsAdmin *)

AdminIds == {id \in SignedInIds : UsersTable[id] = "true"}

NoLookupIssued ==
    \A id \in SignedInIds : adminQueries'[id].fetching => adminQueries[id].fetching

\* C2: while no user is signed in the hook returns false, and no step that
\* ends signed out issues a `users` lookup.
C2_SignedOutFalseNoLookup ==
    /\ [](user = Undefined => useIsAdmin = FALSE)
    /\ [][user' = Undefined => NoLookupIssued]_vars

\* Signed out after an admin's lookup resolved, with another lookup in flight.
C2_Witness ==
    /\ user = Undefined
    /\ adminQueries["ua"].data = "true"
    /\ adminQueries["ub"].fetching

\* C3 as stated (its safety half): for a signed-in admin the hook returns
\* false for as long as the lookup is pending.
C3_FalseWhilePending ==
    \A id \in AdminIds :
        (user = id /\ adminQueries[id].fetching) => useIsAdmin = FALSE

\* C3 as amended: for a signed-in admin the hook returns false while no
\* result is cached for the identifier, and a lookup in flight leads to the
\* hook returning true, unless the user changes or the lookup fails.
C3_FalseUntilCachedThenTrue ==
    /\ [](\A id \in AdminIds :
            (user = id /\ adminQueries[id].data = Undefined) => useIsAdmin = FALSE)
    /\ \A id \in AdminIds :
            (user = id /\ adminQueries[id].fetching)
                ~> \/ useIsAdmin
                   \/ user # id
                   \/ lastLookup = "error" /\ ~adminQueries[id].fetching

\* The admin is signed in, the first lookup is in flight, nothing is cached.
C3_Witness ==
    /\ user = "ua"
    /\ adminQueries["ua"].fetching
    /\ adminQueries["ua"].data = Undefined
    /\ useIsAdmin = FALSE

NoAdminRow == {"error", "norow", "null"}

\* C10 as stated: the hook returns true only after a lookup keyed by the
\* current identifier resolved is_admin = true, and returns false when the
\* lookup failed, gave no row or no field, or has not resolved since the
\* identifier changed.
C10_TrueOnlyResolved ==
    /\ useIsAdmin => user \in resolvedTrue
    /\ lastLookup \in NoAdminRow \cup {"unresolved"} => useIsAdmin = FALSE

\* C10 as amended: the last case is that no result is cached for the current
\* identifier.
C10_TrueOnlyCached ==
    /\ useIsAdmin => user \in resolvedTrue /\ adminQueries[user].data = "true"
    /\ lastLookup \in NoAdminRow => useIsAdmin = FALSE
    /\ adminQueries[user].data = Undefined => useIsAdmin = FALSE

\* The admin's lookup resolved true earlier and the latest one failed.
C10_Witness ==
    /\ user = "ua"
    /\ "ua" \in resolvedTrue
    /\ lastLookup = "error"
    /\ useIsAdmin = FALSE

------------------------------------------------------------------------------
(* Properties of filterComponentsBySearch *)

SameLetter(x, y) == x = y \/ {x, y} \in {{"a", "A"}, {"b", "B"}}

ContainsIgnoringCase(field, q) ==
    /\ field # NoText
    /\ \E i \in 0..(Len(field) - Len(q)) :
          \A k \in 1..Len(q) : SameLetter(field[i + k], q[k])

SearchHit(item, q) ==
    \E field \in {item.name, item.component.name, item.user.name, item.preview_url} :
        ContainsIgnoringCase(field, q)

QueryHit(item) == SearchHit(item, fQuery)

\* C4: an empty query returns the input unchanged; a non-empty query returns
\* exactly the items with a field containing it case-insensitively, in their
\* original order, so an empty collection when no field of any item matches.
C4_FilterBySearch ==
    fCalled =>
        /\ fQuery = EmptyText => fResult = fComponents
        /\ (fQuery # EmptyText /\ ~fComponents.isUndefined) =>
              /\ fResult = List(SelectSeq(fComponents.items, QueryHit))
              /\ (\A i \in 1..Len(fComponents.items) : ~QueryHit(fComponents.items[i]))
                    => fResult = List(<<>>)

\* A mixed-case query kept the second of two items and dropped the first.
C4_Witness ==
    /\ fCalled
    /\ fQuery = <<"B", "b">>
    /\ Len(fComponents.items) = 2
    /\ fResult = List(<<fComponents.items[2]>>)
    /\ fComponents.items[1].name # NoText

------------------------------------------------------------------------------
(* Properties of UserItemsList *)

\* The entry of the query that belongs to the current tab and user.
TabQuery == queries[<<KindOf(tab), userId>>]

TabRows == IF TabQuery.status = "success" THEN TabQuery.data ELSE <<>>

TabLoading == TabQuery.status = "pending"

HasSearch == searchQuery # EmptyText

AtomHit(item) == SearchHit(item, searchQuery)

\* C1: exactly one of the three per-tab queries is enabled; the two given the
\* empty identifier are disabled, issue no remote procedure call and hold no
\* data.
C1_ExactlyOneQueryEnabled ==
    mounted =>
        /\ Cardinality({kind \in Kinds :
               QueryEnabled(kind, HookArg(kind, tab, userId))}) = 1
        /\ \A kind \in Kinds :
               HookArg(kind, tab, userId) = "" =>
                   /\ ~QueryEnabled(kind, "")
                   /\ HookResult(kind).status = "none"

OwnedByUser(item) == item.component.user.id = userId

AuthoredOnOthers(item) ==
    item.user.id = userId /\ item.component.user.id # userId

\* C5: the filtered collection is the search-filtered rows of the tab's query
\* restricted by ownership: components keeps the items whose component the
\* user owns, demos those the user authored on someone else's component,
\* bookmarks all of them.
C5_OwnershipRule ==
    mounted =>
        LET found == IF HasSearch THEN SelectSeq(TabRows, AtomHit) ELSE TabRows
        IN  components =
                CASE tab = "components" -> SelectSeq(found, OwnedByUser)
                  [] tab = "demos" -> SelectSeq(found, AuthoredOnOthers)
                  [] tab = "bookmarks" -> found

\* The demos tab with a search: of seven rows, five match and one is kept.
C5_Witness ==
    /\ mounted
    /\ tab = "demos"
    /\ searchQuery = <<"a", " ">>
    /\ Len(TabRows) = 7
    /\ Len(components) = 1
    /\ components[1].id = "2"

\* C6: on the bookmarks tab, with the liked fetch not loading, no item and no
\* search, the empty-bookmarks panel is rendered, and neither the skeleton
\* grid nor the empty-search panel.
C6_EmptyBookmarksPanel ==
    ( /\ mounted
      /\ tab = "bookmarks"
      /\ queries[<<"user-liked-components", userId>>].status # "pending"
      /\ Len(components) = 0
      /\ ~HasSearch )
    => Rendered = "EmptyLikedState" /\ Rendered \notin {"skeleton", "emptySearch"}

\* The liked fetch returned zero rows.
C6_Witness ==
    /\ mounted
    /\ tab = "bookmarks"
    /\ queries[<<"user-liked-components", userId>>].status = "success"
    /\ ~HasSearch
    /\ Rendered = "EmptyLikedState"

\* /q/<URL-encoded search>, written out for the searches of the model.
SitePath(search) ==
    CASE search = <<"a", " ">> -> <<"/", "q", "/", "a", "%", "2", "0">>
      [] search = <<"B", "/">> -> <<"/", "q", "/", "B", "%", "2", "F">>
      [] search = EmptyText -> NoText

\* C7: with the tab's fetch not loading, a search and no item passing the
\* filters, the empty-search panel is rendered; the button and the shortcut
\* navigate to /q/<URL-encoded search> for the search string of that moment,
\* and do not navigate when the search string is empty.
C7_SearchEverywhere ==
    /\ []((mounted /\ ~TabLoading /\ HasSearch /\ Len(components) = 0)
            => Rendered = "emptySearch")
    /\ [][(ClickSearchEverywhere \/ HotkeyModEnter)
            => pushed' = SitePath(searchQuery)]_vars

\* The panel is shown and its action has just navigated.
C7_Witness ==
    /\ Rendered = "emptySearch"
    /\ searchQuery = <<"B", "/">>
    /\ pushed = <<"/", "q", "/", "B", "%", "2", "F">>

\* C8: a render produces exactly one view; outside the bookmarks special case
\* it is the skeleton grid exactly when loading or when empty without search,
\* the empty-search panel exactly when not loading and empty with a search,
\* and the populated grid otherwise.
C8_OneView ==
    mounted =>
        LET empty == Len(components) = 0
            special == tab = "bookmarks" /\ ~TabLoading /\ empty /\ ~HasSearch
            skeleton == TabLoading \/ (empty /\ ~HasSearch)
            panel == ~TabLoading /\ empty /\ HasSearch
        IN  /\ Rendered \in {"EmptyLikedState", "skeleton", "emptySearch", "grid"}
            /\ ~special =>
                 /\ Rendered = "skeleton" <=> skeleton
                 /\ Rendered = "emptySearch" <=> panel
                 /\ Rendered = "grid" <=> ~skeleton /\ ~panel

\* The skeleton grid stays after the fetch failed.
C8_Witness ==
    /\ mounted
    /\ tab = "components"
    /\ TabQuery.status = "error"
    /\ ~HasSearch
    /\ Rendered = "skeleton"

RowsOf(rpc, id) ==
    UNION {{transformDemoData(rows[i]) : i \in 1..Len(rows)} : rows \in RpcRows(rpc, id)}

\* C9: what is displayed comes from the query of the current tab and user:
\* the entry rendered was fetched by the tab's hook with the current
\* identifier, and every displayed item is a row of the tab's procedure for
\* that identifier.
C9_DisplayedFromCurrentTab ==
    mounted =>
        /\ ActiveQuery.status = "success" =>
              /\ ActiveQuery.hook = KindOf(tab)
              /\ ActiveQuery.arg = userId
        /\ \A i \in 1..Len(components) :
              components[i] \in RowsOf(RpcOf(KindOf(tab)), userId)

\* u2's demos are displayed while the fetch for u1's components tab, left
\* behind by the switch, is still in flight.
C9_Witness ==
    /\ mounted
    /\ tab = "demos"
    /\ userId = "u2"
    /\ queries[<<"user-published-demos", "u1">>].status = "pending"
    /\ Len(components) = 1

====
